---- MODULE Spec2Model ----
(***************************************************************************)
(* The QRV detection core of h3lix: the HILD state machine                 *)
(* (core/qrv/hild.py), the Rogue Variable Library (core/qrv/rvl.py) and    *)
(* the QRV manager (core/qrv/manager.py) that drives them once per tick.   *)
(*                                                                         *)
(* The spectral detector (core/qrv/spectral.py), the QMS builder           *)
(* (core/qrv/qms.py) and the predictor (core/qrv/hamiltonian.py) are       *)
(* computed on integer amplitudes.                                         *)
(*                                                                         *)
(* Six specifications share the state:                                     *)
(*   SpecHILD    HILDStateMachine called directly (on_tick, acknowledge,   *)
(*               get_status), as its unit tests do;                        *)
(*   SpecCounted HILDStateMachine called directly, counting the            *)
(*               untriggered ticks in a row, the untriggered tick fair;    *)
(*   Spec        QRVManager: process_tick run by worker threads, one       *)
(*               source statement group per step, with acknowledge_prompt, *)
(*               status and list_events as whole calls;                    *)
(*   SpecThreads QRVManager with overlapping process_tick calls;           *)
(*   SpecBus     QRVManager publishing to a StreamBus with one subscriber  *)
(*               whose queue is bounded;                                   *)
(*   SpecDirect  detect, build_from_segments, build and predict called     *)
(*               directly, one call per run.                               *)
(*                                                                         *)
(* Optional[T] is a sequence of length at most one: None is <<>>.          *)
(* A dict is a function whose DOMAIN is the set of its keys.               *)
(* uuid4() is the next value of a counter: fresh and never repeated.       *)
(***************************************************************************)
EXTENDS Integers, Sequences, FiniteSets, TLC

VARIABLES
    sessions,      \* HILDStateMachine.sessions: session id -> HILDSessionState
    uuid_next,     \* the next value uuid.uuid4() returns
    ret,           \* what the last direct call of HILD/RVL returned
    script,        \* per session: the on_tick/acknowledge calls made so far
    last_qms,      \* QRVManager._last_qms: session id -> QMSState
    in_memory,     \* RogueVariableLibrary._in_memory
    graph,         \* the number of segments the graph accessor ranks
    bus,           \* QRVManager.bus: none, or a StreamBus and its subscriber's queue
    started,       \* calls and changes so far: process_tick, acknowledge_prompt, graph
    pc,            \* per thread: its place in process_tick
    frame          \* per thread: the locals of its process_tick call

vars == <<sessions, uuid_next, ret, script, last_qms, in_memory, graph, bus, started, pc, frame>>

hildVars == <<sessions, uuid_next, ret, script>>
mgrVars == <<last_qms, in_memory, graph, bus, started, pc, frame>>

----------------------------------------------------------------------------
(* Bounds of the model. *)

MaxT == 2          \* t_rel_ms is 0 or MaxT milliseconds
MaxSegs == 4       \* a detection names at most MaxSegs rogue segments
MaxEvent == 2      \* event ids handed to on_tick directly: 1..MaxEvent
MaxScript == 5     \* direct HILD calls per session that script records
MaxUuid == 3       \* uuid4() calls per run
MaxTicks == 3      \* process_tick calls per run, one at a time
MaxOverlapTicks == 2   \* process_tick calls per run, when calls overlap
MaxBasis == 1      \* the graph accessor ranks at most MaxBasis segments
MaxAmp == 0        \* distinct amplitude vectors a build can yield: 0..MaxAmp
MaxAcks == 1       \* acknowledge_prompt calls per run
MaxGraphChanges == 1   \* changes of the graph store per run
MaxBusTicks == 2   \* process_tick calls per run, on a bus with a subscriber
MaxQueue == 1      \* max_queue of the StreamBus: 0 (unbounded)..MaxQueue
MaxDim == 3        \* segments of a state handed to detect, build or predict directly
MaxWeight == 1     \* an amplitude handed to detect directly: 0..MaxWeight
MaxLimit == 2      \* limit handed to build_from_segments directly: -MaxLimit..MaxLimit
MaxDt == 1         \* dt handed to predict directly: -MaxDt..MaxDt
MaxTopK == 2       \* loading_top_k of a detector made with a smaller one: 1..MaxTopK
MaxQuiet == 4      \* untriggered ticks in a row that are counted
MaxEdges == 2      \* edges created in the repository before build is called

SessionIds == {"", "s1"}
Threads == {"w1", "w2"}
(* The session the direct calls of HILDStateMachine are made for. *)
HildSessionIds == {"s1"}
Times == {0, MaxT}
None == <<>>
Some(x) == <<x>>

Min(a, b) == IF a <= b THEN a ELSE b

(* The segment ids, in the graph accessor's ranking order. *)
SegName(i) == i
SegList(n) == [i \in 1..n |-> SegName(i)]

----------------------------------------------------------------------------
(* core/qrv/models.py *)

(* HILDStatus(session_id, state, active_event_id, prompt, last_transition_ms) *)
HILDStatus(session_id, state, active_event_id, prompt, last_transition_ms) ==
    [session_id |-> session_id, state |-> state, active_event_id |-> active_event_id,
     prompt |-> prompt, last_transition_ms |-> last_transition_ms]

(* HILDSessionState(status, unanswered_retry=False) *)
HILDSessionState(status, unanswered_retry) ==
    [status |-> status, unanswered_retry |-> unanswered_retry]

HILDStates == {"Idle", "PendingRogue", "Clarifying", "PassiveSafe", "Resolved"}

(* The detections on_tick is handed directly: an untriggered one, or a     *)
(* triggered one with any event id (or none) and any list of segments.     *)
Detection(triggered, event_id, rogue_segments) ==
    [triggered |-> triggered, event_id |-> event_id, rogue_segments |-> rogue_segments]

Detections ==
    {Detection(FALSE, None, <<>>)}
    \cup {Detection(TRUE, e, SegList(n)) :
            e \in {None} \cup {Some(i) : i \in 1..MaxEvent}, n \in 0..MaxSegs}

----------------------------------------------------------------------------
(* core/qrv/hild.py *)

(* _make_prompt: the ambiguity sentence joins detection.rogue_segments[:3]; *)
(* the prompt is modelled by its prompt_id and the segments it names.      *)
MakePrompt(detection, prompt_id) ==
    [prompt_id |-> prompt_id,
     ambiguity |-> SubSeq(detection.rogue_segments, 1, Min(3, Len(detection.rogue_segments)))]

(* get_status: the stored status, or a fresh Idle one that is not stored. *)
GetStatus(sess, session_id) ==
    IF session_id \notin DOMAIN sess
    THEN HILDStatus(session_id, "Idle", None, None, None)
    ELSE sess[session_id].status

(* on_tick, lines 32-37: the entry is created lazily, Idle. *)
WithEntry(sess, session_id, t_rel_ms) ==
    IF session_id \in DOMAIN sess
    THEN sess
    ELSE (session_id :> HILDSessionState(
              HILDStatus(session_id, "Idle", None, None, Some(t_rel_ms)), FALSE)) @@ sess

(* on_tick, lines 41-52: a triggered tick in Idle or Resolved. *)
OnTickOpenKeepRetry(sess, session_id, t_rel_ms, detection, prompt_id) ==
    LET status == HILDStatus(session_id, "Clarifying", detection.event_id,
                             Some(MakePrompt(detection, prompt_id)), Some(t_rel_ms))
    IN [sessions |-> [sess EXCEPT ![session_id].status = status],
        status |-> status, new_prompt |-> TRUE]

OnTickOpenNoEvent(sess, session_id, t_rel_ms, detection, prompt_id) ==
    LET status == HILDStatus(session_id, "Clarifying", None,
                             Some(MakePrompt(detection, prompt_id)), Some(t_rel_ms))
    IN [sessions |-> [sess EXCEPT ![session_id] = HILDSessionState(status, FALSE)],
        status |-> status, new_prompt |-> TRUE]

OnTickOpenPending(sess, session_id, t_rel_ms, detection, prompt_id) ==
    LET status == HILDStatus(session_id, "PendingRogue", detection.event_id, None,
                             Some(t_rel_ms))
    IN [sessions |-> [sess EXCEPT ![session_id] = HILDSessionState(status, FALSE)],
        status |-> status, new_prompt |-> FALSE]

OnTickOpen(sess, session_id, t_rel_ms, detection, prompt_id) ==
    LET status == HILDStatus(session_id, "Clarifying", detection.event_id,
                             Some(MakePrompt(detection, prompt_id)), Some(t_rel_ms))
    IN [sessions |-> [sess EXCEPT ![session_id] = HILDSessionState(status, FALSE)],
        status |-> status, new_prompt |-> TRUE]

(* on_tick, lines 58-71: an untriggered tick while Clarifying. *)
OnTickUnansweredNoGrace(sess, session_id, t_rel_ms) ==
    LET old == sess[session_id].status
        status == HILDStatus(session_id, "PassiveSafe", old.active_event_id,
                             old.prompt, Some(t_rel_ms))
    IN [sessions |-> [sess EXCEPT ![session_id].status = status],
        status |-> status, new_prompt |-> FALSE]

OnTickUnanswered(sess, session_id, t_rel_ms) ==
    LET old == sess[session_id].status
        status == HILDStatus(session_id, "PassiveSafe", old.active_event_id,
                             old.prompt, Some(t_rel_ms))
    IN IF sess[session_id].unanswered_retry
       THEN [sessions |-> [sess EXCEPT ![session_id].status = status],
             status |-> status, new_prompt |-> FALSE]
       ELSE [sessions |-> [sess EXCEPT ![session_id].unanswered_retry = TRUE],
             status |-> old, new_prompt |-> FALSE]

(* A variant of the next definition that leaves a PassiveSafe session as it is. *)
OnTickStayPassive(sess, session_id, t_rel_ms) ==
    [sessions |-> sess, status |-> sess[session_id].status, new_prompt |-> FALSE]

(* on_tick, lines 73-81: an untriggered tick in PassiveSafe. *)
OnTickResolve(sess, session_id, t_rel_ms) ==
    LET old == sess[session_id].status
        status == HILDStatus(session_id, "Resolved", old.active_event_id, None,
                             Some(t_rel_ms))
    IN [sessions |-> [sess EXCEPT ![session_id].status = status],
        status |-> status, new_prompt |-> FALSE]

(* on_tick: the new sessions dict, the status returned, and whether a      *)
(* prompt (hence a uuid) was made.                                         *)
OnTickClearingRetry(sess0, session_id, t_rel_ms, detection, prompt_id) ==
    LET sess == WithEntry(sess0, session_id, t_rel_ms)
        status == sess[session_id].status
    IN IF detection.triggered /\ status.state \in {"Idle", "Resolved"}
       THEN OnTickOpen(sess, session_id, t_rel_ms, detection, prompt_id)
       ELSE IF detection.triggered /\ status.state = "Clarifying"
       THEN [sessions |-> [sess EXCEPT ![session_id].unanswered_retry = FALSE],
             status |-> status, new_prompt |-> FALSE]
       ELSE IF ~detection.triggered /\ status.state = "Clarifying"
       THEN OnTickUnanswered(sess, session_id, t_rel_ms)
       ELSE IF status.state = "PassiveSafe" /\ ~detection.triggered
       THEN OnTickResolve(sess, session_id, t_rel_ms)
       ELSE [sessions |-> sess, status |-> status, new_prompt |-> FALSE]

OnTickReopeningPassiveSafe(sess0, session_id, t_rel_ms, detection, prompt_id) ==
    LET sess == WithEntry(sess0, session_id, t_rel_ms)
        status == sess[session_id].status
    IN IF detection.triggered /\ status.state \in {"Idle", "Resolved", "PassiveSafe"}
       THEN OnTickOpen(sess, session_id, t_rel_ms, detection, prompt_id)
       ELSE IF detection.triggered /\ status.state = "Clarifying"
       THEN [sessions |-> sess, status |-> status, new_prompt |-> FALSE]
       ELSE IF ~detection.triggered /\ status.state = "Clarifying"
       THEN OnTickUnanswered(sess, session_id, t_rel_ms)
       ELSE IF status.state = "PassiveSafe" /\ ~detection.triggered
       THEN OnTickResolve(sess, session_id, t_rel_ms)
       ELSE [sessions |-> sess, status |-> status, new_prompt |-> FALSE]

OnTick(sess0, session_id, t_rel_ms, detection, prompt_id) ==
    LET sess == WithEntry(sess0, session_id, t_rel_ms)
        status == sess[session_id].status
    IN IF detection.triggered /\ status.state \in {"Idle", "Resolved"}
       THEN OnTickOpen(sess, session_id, t_rel_ms, detection, prompt_id)
       ELSE IF detection.triggered /\ status.state = "Clarifying"
       THEN [sessions |-> sess, status |-> status, new_prompt |-> FALSE]
       ELSE IF ~detection.triggered /\ status.state = "Clarifying"
       THEN OnTickUnanswered(sess, session_id, t_rel_ms)
       ELSE IF status.state = "PassiveSafe" /\ ~detection.triggered
       THEN OnTickResolve(sess, session_id, t_rel_ms)
       ELSE [sessions |-> sess, status |-> status, new_prompt |-> FALSE]

(* acknowledge, lines 85-99. An unknown session is stored and returned     *)
(* Idle (lines 87-90); a known one is replaced by a fresh                  *)
(* HILDSessionState in Resolved.                                           *)
AcknowledgeKeepEntry(sess, session_id, t_rel_ms) ==
    IF session_id \notin DOMAIN sess
    THEN LET status == HILDStatus(session_id, "Idle", None, None, Some(t_rel_ms))
         IN [sessions |-> (session_id :> HILDSessionState(status, FALSE)) @@ sess,
             status |-> status]
    ELSE LET old == sess[session_id].status
             status == HILDStatus(session_id, "Resolved", old.active_event_id,
                                  old.prompt, Some(t_rel_ms))
         IN [sessions |-> [sess EXCEPT ![session_id].status = status],
             status |-> status]

Acknowledge(sess, session_id, t_rel_ms) ==
    IF session_id \notin DOMAIN sess
    THEN LET status == HILDStatus(session_id, "Idle", None, None, Some(t_rel_ms))
         IN [sessions |-> (session_id :> HILDSessionState(status, FALSE)) @@ sess,
             status |-> status]
    ELSE LET status == HILDStatus(session_id, "Resolved",
                                  sess[session_id].status.active_event_id, None,
                                  Some(t_rel_ms))
         IN [sessions |-> [sess EXCEPT ![session_id] = HILDSessionState(status, FALSE)],
             status |-> status]

----------------------------------------------------------------------------
(* core/qrv/rvl.py *)

NoRet == HILDStatus("", "Idle", None, None, None)

(* RogueEventRecord(id, session_id, t_rel_ms, detection) *)
RogueEventRecord(id, session_id, t_rel_ms) ==
    [id |-> id, session_id |-> session_id, t_rel_ms |-> t_rel_ms]

(* record, lines 140-143: the append, then _write_audit, then              *)
(* _persist_neo4j; neither call is guarded, so the first sink that fails   *)
(* raises out of record, after the append.  sinks is what the two sinks    *)
(* do: "ok", "audit_fails" or "mirror_fails".                              *)
SinkOutcomes == {"ok", "audit_fails", "mirror_fails"}

RvlRecordAfterSinks(mem, rec, sinks) ==
    [in_memory |-> IF sinks = "ok" THEN Append(mem, rec) ELSE mem,
     raised |-> IF sinks = "ok" THEN None ELSE Some(sinks)]

RvlRecord(mem, rec, sinks) ==
    [in_memory |-> Append(mem, rec),
     raised |-> IF sinks = "ok" THEN None ELSE Some(sinks)]

(* list_events, lines 145-150: the in-memory part.  The filter is skipped  *)
(* when session_id is falsy: None, and the empty string too.               *)
Falsy(opt_session_id) == opt_session_id = None \/ opt_session_id = Some("")

ListEventsInMemory(mem, opt_session_id) ==
    SelectSeq(mem, LAMBDA rec :
        ~(~Falsy(opt_session_id) /\ rec.session_id # opt_session_id[1]))

----------------------------------------------------------------------------
(* core/qrv/qms.py, core/qrv/hamiltonian.py, core/qrv/spectral.py: the     *)
(* shape of what they return.  The amplitudes of an observed state are a   *)
(* function of segment attributes and overrides, both inputs: amp names    *)
(* the vector.                                                             *)

qms_limit == 64

QMSState(basis, session_id, t_rel_ms, amp) ==
    [basis |-> basis, session_id |-> session_id, t_rel_ms |-> t_rel_ms, amp |-> amp]

(* InMemoryMPGRepository.top_segments: segs_sorted[:limit], a slice.  A     *)
(* negative limit drops that many segments from the end of the ranking.    *)
TopSegments(n_segments, limit) ==
    IF limit >= 0 THEN SegList(Min(n_segments, limit))
    ELSE SegList(IF n_segments + limit >= 0 THEN n_segments + limit ELSE 0)

(* build_from_segments: the basis is the ids of top_segments(limit). *)
BuildFromSegments(n_segments, session_id, t_rel_ms, amp) ==
    QMSState(TopSegments(n_segments, qms_limit), session_id, t_rel_ms, amp)

(* predict: same basis, session_id and t_rel_ms as prev_state; the         *)
(* amplitudes are a function of prev_state's and dt.                       *)
Predict(prev_state, dt) ==
    QMSState(prev_state.basis, prev_state.session_id, prev_state.t_rel_ms,
             [from |-> prev_state.amp, dt |-> dt])

(* manager.py line 51: max(t_rel_ms - (prev.t_rel_ms or t_rel_ms), 1.0),   *)
(* in milliseconds; 0 is falsy.                                            *)
Elapsed(t_rel_ms, prev) ==
    LET base == IF prev.t_rel_ms = 0 THEN t_rel_ms ELSE prev.t_rel_ms
        d == t_rel_ms - base
    IN IF d >= 1 THEN d ELSE 1

(* detect: what it can return for states of these shapes.  "raise" is an   *)
(* exception of numpy: observed - predicted does not broadcast, or         *)
(* _top_loadings indexes observed.basis past its end.                      *)
NotTriggered == Detection(FALSE, None, <<>>)

DetectResults(observed) ==
    {NotTriggered} \cup
    {Detection(TRUE, None, SubSeq(observed.basis, 1, k)) : k \in 1..Len(observed.basis)}

DetectOutcomesNoShortCircuit(observed, predicted) ==
    IF Len(observed.basis) = Len(predicted.basis) /\ Len(observed.basis) > 0
    THEN {Some(d) : d \in DetectResults(observed)}
    ELSE {None}

DetectOutcomes(observed, predicted) ==
    LET n == Len(observed.basis)
        m == Len(predicted.basis)
    IN IF n = 0 THEN {Some(NotTriggered)}
       ELSE IF n = m \/ m = 1 THEN {Some(d) : d \in DetectResults(observed)}
       ELSE IF n = 1 /\ m = 0 THEN {None, Some(NotTriggered)}
       ELSE {None}

----------------------------------------------------------------------------
(* core/qrv/spectral.py, computed.  Amplitudes are small integers, so that *)
(* every norm is the square root of an integer and norms compare exactly;  *)
(* the differences that arise are far above improvement_tolerance (1e-6).  *)

max_directions == 3
loading_top_k == 5

RECURSIVE SumTo(_, _)
SumTo(v, n) == IF n = 0 THEN 0 ELSE v[n] + SumTo(v, n - 1)

(* np.linalg.norm(v) ** 2 *)
SqNorm(v) == SumTo([i \in 1..Len(v) |-> v[i] * v[i]], Len(v))
Dot(v, w) == SumTo([i \in 1..Len(v) |-> v[i] * w[i]], Len(v))
Abs(x) == IF x < 0 THEN -x ELSE x

(* _error_operator: delta = psi_obs - psi_pred and its norm; the operator  *)
(* is outer(delta, conj(delta)).                                           *)
ErrorOperatorOfSum(psi_obs, psi_pred) ==
    LET delta == [i \in 1..Len(psi_obs) |-> psi_obs[i] + psi_pred[i]]
    IN [delta |-> delta, error_norm_sq |-> SqNorm(delta)]

ErrorOperator(psi_obs, psi_pred) ==
    LET delta == [i \in 1..Len(psi_obs) |-> psi_obs[i] - psi_pred[i]]
    IN [delta |-> delta, error_norm_sq |-> SqNorm(delta)]

(* The lists without repetition of the elements of S. *)
Orders(S) ==
    {q \in [1..Cardinality(S) -> S] : \A i, j \in 1..Cardinality(S) : q[i] = q[j] => i = j}

(* _top_loadings(vec, basis) for vec = delta / |delta|, the eigenvector of *)
(* the one non-zero eigenvalue: the ids with a non-zero loading, largest   *)
(* magnitude first, at most loading_top_k of them; argsort breaks ties as  *)
(* it likes.                                                               *)
TopLoadings(delta, basis, top_k) ==
    LET supp == {i \in 1..Len(delta) : delta[i] # 0}
        k == Min(top_k, Cardinality(supp))
    IN {[i \in 1..k |-> basis[q[i]]] :
           q \in {o \in Orders(supp) :
                     \A i \in 1..(Cardinality(supp) - 1) : Abs(delta[o[i]]) >= Abs(delta[o[i + 1]])}}

(* _top_loadings(vec, basis) for an eigenvector of the eigenvalue 0: a     *)
(* unit vector of the rest of the space, as eigh returns it, which may     *)
(* load any ids, in any order of magnitude; at least one loading is not 0. *)
AnyLoadings(basis, top_k) ==
    LET ids == {basis[i] : i \in 1..Len(basis)}
    IN UNION {Orders(X) : X \in {Y \in SUBSET ids : Y # {} /\ Cardinality(Y) <= top_k}}

(* np.linalg.eigh(oe) of the operator of rank 0 or 1: the eigenvalues,     *)
(* ascending.                                                              *)
Eigvals(delta) == [i \in 1..Len(delta) |-> IF i = Len(delta) THEN SqNorm(delta) ELSE 0]

(* np.argsort(eigvals)[::-1][:max_directions] *)
Order(eigvals, max_dirs) ==
    [r \in 1..Min(max_dirs, Len(eigvals)) |-> Len(eigvals) + 1 - r]

(* RogueDirection(direction_id, eigenvalue, high_segments, delta_error);   *)
(* direction_id chi_idx is idx.                                            *)
RogueDirection(direction_id, eigenvalue, high_segments, delta_error) ==
    [direction_id |-> direction_id, eigenvalue |-> eigenvalue,
     high_segments |-> high_segments, delta_error |-> delta_error]

(* The lists whose r-th element is one of choices[r]. *)
RECURSIVE Lists(_, _)
Lists(choices, r) ==
    IF r = 0 THEN {<<>>}
    ELSE {Append(q, c) : q \in Lists(choices, r - 1), c \in choices[r]}

(* detect, lines 58-77: the lists of directions the loop can build. *)
RogueDirs(delta, basis, max_dirs, top_k) ==
    LET eigvals == Eigvals(delta)
        order == Order(eigvals, max_dirs)
        top == TopLoadings(delta, basis, top_k)
        any == AnyLoadings(basis, top_k)
        choices == [r \in 1..Len(order) |->
                       {RogueDirection(order[r], eigvals[order[r]], top_segments, 0) :
                           top_segments \in IF eigvals[order[r]] # 0 THEN top ELSE any}]
    IN Lists(choices, Len(order))

(* high_segments, lines 61 and 68: the directions' lists, one after another. *)
RECURSIVE HighSegments(_)
HighSegments(rogue_dirs) ==
    IF rogue_dirs = <<>> THEN <<>>
    ELSE HighSegments(SubSeq(rogue_dirs, 1, Len(rogue_dirs) - 1))
         \o rogue_dirs[Len(rogue_dirs)].high_segments

(* list(dict.fromkeys(q)): the first occurrence of each element, in order. *)
RECURSIVE Dedupe(_)
Dedupe(q) ==
    IF q = <<>> THEN <<>>
    ELSE LET front == Dedupe(SubSeq(q, 1, Len(q) - 1))
         IN IF \E i \in 1..Len(front) : front[i] = q[Len(q)]
            THEN front
            ELSE Append(front, q[Len(q)])

(* unique_high, line 79. *)
UniqueHighWithDuplicates(rogue_dirs) == HighSegments(rogue_dirs)

UniqueHigh(rogue_dirs) == Dedupe(HighSegments(rogue_dirs))

(* Lines 84-85: every direction gets the improvement as its delta_error. *)
SetDeltaErrorOfFirst(rogue_dirs, improvement) ==
    [r \in 1..Len(rogue_dirs) |->
        IF r = 1 THEN [rogue_dirs[r] EXCEPT !.delta_error = improvement] ELSE rogue_dirs[r]]

SetDeltaError(rogue_dirs, improvement) ==
    [r \in 1..Len(rogue_dirs) |-> [rogue_dirs[r] EXCEPT !.delta_error = improvement]]

(* Is a * sqrt(k) < b, for integers a, b and k > 0. *)
LessSqrt(a, k, b) ==
    IF a < 0 /\ b >= 0 THEN TRUE
    ELSE IF a >= 0 /\ b <= 0 THEN FALSE
    ELSE IF a >= 0 THEN a * a * k < b * b
    ELSE a * a * k > b * b

(* _ablate: psi_obs with the indices zeroed, renormalised when not zero;   *)
(* the distance to psi_pred, compared with error_norm: -1 when the ablated *)
(* error is the smaller, 0 when they are equal, 1 when it is the larger.   *)
(* For psi_hat of squared norm k > 0:                                      *)
(*   |psi_hat/sqrt(k) - psi_pred|^2 = 1 + |psi_pred|^2 - 2 <psi_hat, psi_pred> / sqrt(k). *)
AblateNothing(psi_obs, psi_pred, indices, error_norm_sq) == 0

Ablate(psi_obs, psi_pred, indices, error_norm_sq) ==
    LET psi_hat == [i \in 1..Len(psi_obs) |-> IF i \in indices THEN 0 ELSE psi_obs[i]]
        k == SqNorm(psi_hat)
        a == 1 + SqNorm(psi_pred) - error_norm_sq
        b == 2 * Dot(psi_hat, psi_pred)
    IN IF k = 0
       THEN (IF SqNorm(psi_pred) < error_norm_sq THEN -1
             ELSE IF SqNorm(psi_pred) = error_norm_sq THEN 0 ELSE 1)
       ELSE IF LessSqrt(a, k, b) THEN -1
       ELSE IF LessSqrt(-a, k, -b) THEN 1 ELSE 0

(* RogueDetectionResult: error_norm by its square, ablation_improvement by *)
(* its sign.                                                               *)
RogueDetectionResult(triggered, error_norm_sq, ablation_improvement, rogue_directions, rogue_segments) ==
    [triggered |-> triggered, error_norm_sq |-> error_norm_sq,
     ablation_improvement |-> ablation_improvement, rogue_directions |-> rogue_directions,
     rogue_segments |-> rogue_segments]

(* detect, lines 42-96, of a detector made with these max_directions and   *)
(* loading_top_k, for states of equal length (or an empty observed one):   *)
(* the results it can return.                                              *)
DetectWith(observed, predicted, max_dirs, top_k) ==
    IF Len(observed.amp) = 0
    THEN {RogueDetectionResult(FALSE, 0, 0, <<>>, <<>>)}
    ELSE LET oe == ErrorOperator(observed.amp, predicted.amp)
             IndexOf(seg) == CHOOSE i \in 1..Len(observed.basis) : observed.basis[i] = seg
         IN {LET unique_high == UniqueHigh(rogue_dirs)
                 ablate_indices == {IndexOf(unique_high[i]) : i \in 1..Len(unique_high)}
                 improvement == Ablate(observed.amp, predicted.amp, ablate_indices,
                                       oe.error_norm_sq)
             IN RogueDetectionResult(improvement < 0, oe.error_norm_sq, improvement,
                                     SetDeltaError(rogue_dirs, improvement), unique_high) :
                rogue_dirs \in RogueDirs(oe.delta, observed.basis, max_dirs, top_k)}

(* detect of SpectralRogueDetector(), as QRVManager makes it. *)
Detect(observed, predicted) == DetectWith(observed, predicted, max_directions, loading_top_k)

----------------------------------------------------------------------------
(* core/qrv/qms.py, computed.  The weights are in hundredths, the          *)
(* attributes of a segment and of its latest state are 0 or 1; the         *)
(* amplitudes returned are the vector divided by its norm when that is not *)
(* 0, which changes no length.                                             *)

weights ==
    [importance |-> 40, confidence |-> 25, stability |-> 10, recency |-> 10,
     intensity |-> 10, valence |-> 5, coherence |-> 15, potency |-> 10]

(* The dict top_segments returns for the segment ranked i-th: the ranking  *)
(* is by (importance, confidence), descending.                             *)
Segment(i) ==
    [id |-> SegName(i), importance |-> IF i = 1 THEN 1 ELSE 0, confidence |-> 1,
     stability |-> 1, recency |-> 0, intensity |-> 0, valence |-> 0]

(* What repo.get_segment_states(segment_id, limit=1) does: it raises, it   *)
(* returns no state, or it returns one with coherence 1 and potency 1.     *)
LookupOutcomes == {"raises", "none", "state"}

(* _latest_state, lines 31-42: (coherence, potency). *)
LatestState(lookup) == IF lookup = "state" THEN <<1, 1>> ELSE <<0, 0>>

(* _amplitude_from_segment, lines 44-54. *)
AmplitudeFromSegment(segment, lookup) ==
    LET state == LatestState(lookup)
    IN weights.importance * segment.importance + weights.confidence * segment.confidence
       + weights.stability * segment.stability + weights.recency * segment.recency
       + weights.intensity * segment.intensity + weights.valence * segment.valence
       + weights.coherence * state[1] + weights.potency * state[2]

(* feature_overrides: None, or a list of ones of any length. *)
Overrides == {None} \cup {Some([i \in 1..k |-> 1]) : k \in 0..(MaxDim + 1)}

(* build_from_segments, lines 65-70: one amplitude per segment returned,   *)
(* then the overrides, cut to the number of amplitudes, are added.         *)
BuildAmplitudesSkippingFailed(basis, lookups, feature_overrides) ==
    LET kept == SelectSeq([i \in 1..Len(basis) |-> i], LAMBDA i : lookups[i] # "raises")
    IN [k \in 1..Len(kept) |-> AmplitudeFromSegment(Segment(kept[k]), lookups[kept[k]])]

BuildAmplitudes(basis, lookups, feature_overrides) ==
    LET amplitudes == [i \in 1..Len(basis) |-> AmplitudeFromSegment(Segment(i), lookups[i])]
        n_over == IF feature_overrides = None THEN 0
                  ELSE Min(Len(feature_overrides[1]), Len(amplitudes))
    IN [i \in 1..Len(amplitudes) |->
           IF i <= n_over THEN amplitudes[i] + 100 * feature_overrides[1][i]
           ELSE amplitudes[i]]

----------------------------------------------------------------------------
(* mpg/repository.py and core/qrv/hamiltonian.py, computed.  The nodes of  *)
(* the repository are the segments 1..MaxDim; strength and confidence are  *)
(* small integers, multiples of a unit.  H is kept in tenths, so that      *)
(* diag_damping = 0.1 is the integer 1.                                    *)

diag_damping == 1

(* MPGNode.level: segments sit at level 1, every second one at level 2. *)
Level(node) == IF node % 2 = 0 THEN 2 ELSE 1

(* MPGEdge(src, dst, strength, confidence) *)
MPGEdge(src, dst, strength, confidence) == <<src, dst, strength, confidence>>

Strengths == {1, 2}
Levels == {1, 2}
Confidences == {1, 3}

(* InMemoryMPGRepository.edges after any create_edge calls: a list, which  *)
(* may hold several edges between the same pair of nodes.                  *)
EdgeLists(n_nodes, max_edges) ==
    UNION {[1..k -> {MPGEdge(u, v, st, c) :
                        u \in 1..n_nodes, v \in 1..n_nodes, st \in Strengths, c \in Confidences}] :
           k \in 0..max_edges}

(* get_graph(level): an nx.DiGraph, which holds one edge per ordered pair  *)
(* of nodes; add_edge on a pair that has an edge replaces its attributes,  *)
(* so the pair carries the data of the edge created last.                  *)
GetGraph(edges, level) ==
    LET ok == {k \in 1..Len(edges) :
                  Level(edges[k][1]) = level /\ Level(edges[k][2]) = level}
        Of(p) == {k \in ok : <<edges[k][1], edges[k][2]>> = p}
        Last(p) == CHOOSE k \in Of(p) : \A k2 \in Of(p) : k2 <= k
    IN [p \in {<<edges[k][1], edges[k][2]>> : k \in ok} |-> edges[Last(p)]]

(* build, lines 19-26: for every edge of the graph with both ends in the   *)
(* basis, h[i, j] += strength * confidence.                                *)
Accumulate(basis, level_graph) ==
    LET n == Len(basis)
        Weight(data) == data[3] * data[4]
    IN [i \in 1..n |-> [j \in 1..n |->
           IF <<basis[i], basis[j]>> \in DOMAIN level_graph
           THEN Weight(level_graph[<<basis[i], basis[j]>>])
           ELSE 0]]

(* build, lines 28-29: h[i, i] -= diag_damping * sum(abs(h[i])), in tenths. *)
Damp(h) ==
    [i \in 1..Len(h) |-> [j \in 1..Len(h) |->
        IF i = j
        THEN 10 * h[i][j] - diag_damping * SumTo([k \in 1..Len(h) |-> Abs(h[i][k])], Len(h))
        ELSE 10 * h[i][j]]]

(* build(basis, level), on a repository with these edges. *)
Build(basis, edges, level) == Damp(Accumulate(basis, GetGraph(edges, level)))

(* predict, lines 33-47, for real amplitudes and dt in milliseconds:       *)
(* psi_pred = psi_prev - 1j * dt * (h @ psi_prev), each entry the pair of  *)
(* its real and imaginary part in units of 1/10000; the amplitudes         *)
(* returned are psi_pred divided by its norm when that is not 0.  Basis,   *)
(* session_id and t_rel_ms are those of prev_state.                        *)
PredictFrom(prev_state, edges, dt) ==
    LET h == Build(prev_state.basis, edges, 1)
        psi_pred == [i \in 1..Len(prev_state.amp) |->
                        <<10000 * prev_state.amp[i], -dt * Dot(h[i], prev_state.amp)>>]
    IN QMSState(prev_state.basis, prev_state.session_id, prev_state.t_rel_ms, psi_pred)

----------------------------------------------------------------------------
(* core/qrv/manager.py *)

(* streams/bus.py.  QRVManager.bus is None, or a StreamBus with at most    *)
(* one subscriber: max_queue is the maxsize of the subscriber's            *)
(* asyncio.Queue (0: unbounded), qsize the messages in it, pending the     *)
(* publish tasks of a running loop that wait for room in it.               *)
NoBus == [attached |-> FALSE, subscribers |-> 0, max_queue |-> 0, qsize |-> 0, pending |-> 0]

StreamBus(subscribers, max_queue, qsize) ==
    [attached |-> TRUE, subscribers |-> subscribers, max_queue |-> max_queue,
     qsize |-> qsize, pending |-> 0]

(* asyncio.Queue.full(). *)
Full(b) == b.subscribers > 0 /\ b.max_queue > 0 /\ b.qsize >= b.max_queue

(* StreamBus.publish when no put has to wait: nothing without subscribers, *)
(* else one more message in the queue.                                     *)
Put(b) == IF b.subscribers = 0 THEN b ELSE [b EXCEPT !.qsize = @ + 1]

(* _publish_event, lines 108-127.  No bus: nothing.  A running loop:       *)
(* create_task, whose wait or failure stays in the task.  Otherwise        *)
(* run_until_complete inside try/finally with no except: a failing         *)
(* publish raises out of _publish_event, and publish awaits                *)
(* subscriber.put(message), which waits while the queue is full.           *)
PublishEventDropped(b, loop_running, publish_fails) ==
    [sent |-> FALSE, raised |-> FALSE, waits |-> FALSE, bus |-> b]

PublishEvent(b, loop_running, publish_fails) ==
    IF ~b.attached THEN [sent |-> FALSE, raised |-> FALSE, waits |-> FALSE, bus |-> b]
    ELSE IF loop_running
    THEN [sent |-> TRUE, raised |-> FALSE, waits |-> FALSE,
          bus |-> IF publish_fails THEN b
                  ELSE IF Full(b) THEN [b EXCEPT !.pending = @ + 1]
                  ELSE Put(b)]
    ELSE IF publish_fails
    THEN [sent |-> TRUE, raised |-> TRUE, waits |-> FALSE, bus |-> b]
    ELSE IF Full(b)
    THEN [sent |-> FALSE, raised |-> FALSE, waits |-> TRUE, bus |-> b]
    ELSE [sent |-> TRUE, raised |-> FALSE, waits |-> FALSE, bus |-> Put(b)]

(* Line 88: self._last_qms[session_id] = observed. *)
StorePriorUnkeyed(cache, session_id, observed) ==
    [s \in DOMAIN cache \cup {session_id} |-> observed]

StorePrior(cache, session_id, observed) ==
    (session_id :> observed) @@ cache

(* Line 50: self._last_qms.get(session_id, observed). *)
ReadPrior(cache, session_id, observed) ==
    IF session_id \in DOMAIN cache THEN cache[session_id] ELSE observed

NoFrame ==
    [session_id |-> "", t_rel_ms |-> 0, observed |-> None, prev |-> None,
     predicted |-> None, detection |-> None, event_id |-> None, status |-> None,
     sent |-> <<>>, exc |-> None]

Running(th) == pc[th] \notin {"idle", "returned", "raised"}

(* The workers are interchangeable: a call is served by the first free    *)
(* one.                                                                    *)
FirstFree(th) == th = "w1" \/ Running("w1")

(* An exception leaves process_tick: nothing in it catches.  The locals    *)
(* of the call are gone; the exception and the session it was for remain.  *)
Raised(f, what) == [NoFrame EXCEPT !.session_id = f.session_id, !.exc = Some(what)]

Raise(th, what) ==
    /\ pc' = [pc EXCEPT ![th] = "raised"]
    /\ frame' = [frame EXCEPT ![th] = Raised(@, what)]

(* Lines 37-48: the call, and build_from_segments; top_segments is a query *)
(* of the graph store and may raise.                                       *)
Call(th, s, t, amp, query_fails) ==
    /\ ~Running(th)
    /\ FirstFree(th)
    /\ started' = [started EXCEPT !.tick = @ + 1]
    /\ pc' = [pc EXCEPT ![th] = IF query_fails THEN "raised" ELSE "predict"]
    /\ frame' = [frame EXCEPT ![th] =
          IF query_fails
          THEN [NoFrame EXCEPT !.session_id = s, !.exc = Some("segment_query")]
          ELSE [NoFrame EXCEPT !.session_id = s, !.t_rel_ms = t,
                               !.observed = Some(BuildFromSegments(graph, s, t, amp))]]
    /\ UNCHANGED <<hildVars, last_qms, in_memory, graph, bus>>

(* Lines 50-51: the read of the cached prior and predict; get_graph is a   *)
(* query of the graph store and may raise.                                 *)
PredictStep(th, query_fails) ==
    /\ pc[th] = "predict"
    /\ LET f == frame[th]
           prev == ReadPrior(last_qms, f.session_id, f.observed[1])
       IN IF query_fails
          THEN Raise(th, "graph_query")
          ELSE /\ pc' = [pc EXCEPT ![th] = "detect"]
               /\ frame' = [frame EXCEPT ![th].prev = Some(prev),
                     ![th].predicted = Some(Predict(prev, Elapsed(f.t_rel_ms, prev)))]
    /\ UNCHANGED <<hildVars, last_qms, in_memory, graph, bus, started>>

(* Lines 53-57: detect; a triggered detection gets a fresh event id. *)
DetectStep(th, outcome) ==
    /\ pc[th] = "detect"
    /\ outcome \in DetectOutcomes(frame[th].observed[1], frame[th].predicted[1])
    /\ IF outcome = None
       THEN /\ Raise(th, "detect")
            /\ UNCHANGED uuid_next
       ELSE IF outcome[1].triggered
       THEN /\ pc' = [pc EXCEPT ![th] = "record"]
            /\ frame' = [frame EXCEPT
                  ![th].detection = Some([outcome[1] EXCEPT !.event_id = Some(uuid_next)]),
                  ![th].event_id = Some(uuid_next)]
            /\ uuid_next' = uuid_next + 1
       ELSE /\ pc' = [pc EXCEPT ![th] = "on_tick"]
            /\ frame' = [frame EXCEPT ![th].detection = outcome]
            /\ UNCHANGED uuid_next
    /\ UNCHANGED <<sessions, ret, script, last_qms, in_memory, graph, bus, started>>

(* Lines 58-64: rvl.record. *)
RecordStep(th, sinks) ==
    /\ pc[th] = "record"
    /\ LET f == frame[th]
           r == RvlRecord(in_memory,
                          RogueEventRecord(f.event_id[1], f.session_id, f.t_rel_ms), sinks)
       IN /\ in_memory' = r.in_memory
          /\ IF r.raised # None
             THEN Raise(th, r.raised[1])
             ELSE /\ pc' = [pc EXCEPT ![th] = "publish_detection"]
                  /\ UNCHANGED frame
    /\ UNCHANGED <<hildVars, last_qms, graph, bus, started>>

(* Lines 65-75: _publish_event of the qrv_detection message. *)
PublishDetectionStep(th, loop_running, publish_fails) ==
    /\ pc[th] = "publish_detection"
    /\ LET r == PublishEvent(bus, loop_running, publish_fails)
           out == IF r.sent THEN Append(frame[th].sent, "qrv_detection") ELSE frame[th].sent
       IN /\ ~r.waits
          /\ bus' = r.bus
          /\ IF r.raised
             THEN Raise(th, "publish_detection")
             ELSE /\ pc' = [pc EXCEPT ![th] = "on_tick"]
                  /\ frame' = [frame EXCEPT ![th].sent = out]
    /\ UNCHANGED <<hildVars, last_qms, in_memory, graph, started>>

(* Line 77: hild.on_tick. *)
OnTickStep(th) ==
    /\ pc[th] = "on_tick"
    /\ LET f == frame[th]
           r == OnTick(sessions, f.session_id, f.t_rel_ms, f.detection[1], uuid_next)
       IN /\ sessions' = r.sessions
          /\ uuid_next' = IF r.new_prompt THEN uuid_next + 1 ELSE uuid_next
          /\ frame' = [frame EXCEPT ![th].status = Some(r.status)]
    /\ pc' = [pc EXCEPT ![th] = "publish_status"]
    /\ UNCHANGED <<ret, script, last_qms, in_memory, graph, bus, started>>

(* Lines 78-86: _publish_event of the hild_status message. *)
PublishStatusStep(th, loop_running, publish_fails) ==
    /\ pc[th] = "publish_status"
    /\ LET r == PublishEvent(bus, loop_running, publish_fails)
           out == IF r.sent THEN Append(frame[th].sent, "hild_status") ELSE frame[th].sent
       IN /\ ~r.waits
          /\ bus' = r.bus
          /\ IF r.raised
             THEN Raise(th, "publish_status")
             ELSE /\ pc' = [pc EXCEPT ![th] = "cache"]
                  /\ frame' = [frame EXCEPT ![th].sent = out]
    /\ UNCHANGED <<hildVars, last_qms, in_memory, graph, started>>

(* Line 88: the observed state becomes the session's prior. *)
CacheStep(th) ==
    /\ pc[th] = "cache"
    /\ last_qms' = StorePrior(last_qms, frame[th].session_id, frame[th].observed[1])
    /\ pc' = [pc EXCEPT ![th] = "return"]
    /\ UNCHANGED <<hildVars, in_memory, graph, bus, started, frame>>

(* Lines 90-97: rsl.align and the result bundle, made of the locals as    *)
(* they are at pc = "return"; the call is over.                           *)
ReturnStep(th) ==
    /\ pc[th] = "return"
    /\ pc' = [pc EXCEPT ![th] = "returned"]
    /\ frame' = [frame EXCEPT ![th] = [NoFrame EXCEPT !.session_id = frame[th].session_id]]
    /\ UNCHANGED <<hildVars, last_qms, in_memory, graph, bus, started>>

(* acknowledge_prompt, lines 99-100. *)
AcknowledgePrompt(s, t) ==
    /\ started.ack < MaxAcks
    /\ started' = [started EXCEPT !.ack = @ + 1]
    /\ sessions' = Acknowledge(sessions, s, t).sessions
    /\ UNCHANGED <<uuid_next, ret, script, last_qms, in_memory, graph, bus, pc, frame>>

(* The graph store gains or loses segments.  A call reads the ranking     *)
(* once, as it starts: a change during a call is a change after it.       *)
GraphChange(n) ==
    /\ graph # n
    /\ \A th \in Threads : ~Running(th)
    /\ started.graph < MaxGraphChanges
    /\ started' = [started EXCEPT !.graph = @ + 1]
    /\ graph' = n
    /\ UNCHANGED <<hildVars, last_qms, in_memory, bus, pc, frame>>

Init ==
    /\ sessions = <<>>
    /\ uuid_next = 1
    /\ ret = NoRet
    /\ script = [s \in HildSessionIds |-> <<>>]
    /\ last_qms = <<>>
    /\ in_memory = <<>>
    /\ graph \in 0..MaxBasis
    /\ bus \in {NoBus, StreamBus(0, 0, 0)}
    /\ started = [tick |-> 0, ack |-> 0, graph |-> 0]
    /\ pc = [th \in Threads |-> "idle"]
    /\ frame = [th \in Threads |-> NoFrame]

(* The steps of a process_tick call under way, with what the graph store,  *)
(* the sinks and the bus may do to it.                                     *)
Steps ==
    \/ \E th \in Threads, qf \in BOOLEAN : PredictStep(th, qf)
    \/ \E th \in Threads, o \in {None} \cup {Some(d) : d \in Detections} : DetectStep(th, o)
    \/ \E th \in Threads, sinks \in SinkOutcomes : RecordStep(th, sinks)
    \/ \E th \in Threads, lr \in BOOLEAN, pf \in BOOLEAN : PublishDetectionStep(th, lr, pf)
    \/ \E th \in Threads : OnTickStep(th)
    \/ \E th \in Threads, lr \in BOOLEAN, pf \in BOOLEAN : PublishStatusStep(th, lr, pf)
    \/ \E th \in Threads : CacheStep(th)
    \/ \E th \in Threads : ReturnStep(th)

(* One tick-driver: process_tick calls never overlap. *)
Next ==
    \/ \E th \in Threads, s \in SessionIds, t \in Times, amp \in 0..MaxAmp, qf \in BOOLEAN :
          /\ started.tick < MaxTicks
          /\ \A other \in Threads : ~Running(other)
          /\ Call(th, s, t, amp, qf)
    \/ Steps
    \/ \E s \in SessionIds, t \in Times : AcknowledgePrompt(s, t)
    \/ \E n \in 0..MaxBasis : GraphChange(n)

Spec == Init /\ [][Next]_vars

(* The worker threads of the HTTP server: process_tick calls overlap. *)
NextThreads ==
    \/ \E th \in Threads, s \in SessionIds, t \in Times, amp \in 0..MaxAmp, qf \in BOOLEAN :
          /\ started.tick < MaxOverlapTicks
          /\ Call(th, s, t, amp, qf)
    \/ Steps
    \/ \E s \in SessionIds, t \in Times : AcknowledgePrompt(s, t)
    \/ \E n \in 0..MaxBasis : GraphChange(n)

SpecThreads == Init /\ [][NextThreads]_vars

----------------------------------------------------------------------------
(* A StreamBus with one subscriber, whose queue may be bounded, may hold   *)
(* messages already, and is drained only when the subscriber gets to it.   *)

(* The subscriber takes a message off its queue; a publish task that       *)
(* waited for room puts its message in.                                    *)
Drain ==
    /\ bus.qsize > 0
    /\ bus' = IF bus.pending > 0 THEN [bus EXCEPT !.pending = @ - 1]
              ELSE [bus EXCEPT !.qsize = @ - 1]
    /\ UNCHANGED <<hildVars, last_qms, in_memory, graph, started, pc, frame>>

InitBus ==
    /\ sessions = <<>>
    /\ uuid_next = 1
    /\ ret = NoRet
    /\ script = [s \in HildSessionIds |-> <<>>]
    /\ last_qms = <<>>
    /\ in_memory = <<>>
    /\ graph \in 0..MaxBasis
    /\ bus \in {StreamBus(1, m, q) : m \in 0..MaxQueue, q \in 0..MaxQueue}
    /\ bus.qsize <= bus.max_queue
    /\ started = [tick |-> 0, ack |-> 0, graph |-> 0]
    /\ pc = [th \in Threads |-> "idle"]
    /\ frame = [th \in Threads |-> NoFrame]

NextBus ==
    \/ \E th \in Threads, s \in SessionIds, t \in Times, amp \in 0..MaxAmp, qf \in BOOLEAN :
          /\ started.tick < MaxBusTicks
          /\ \A other \in Threads : ~Running(other)
          /\ Call(th, s, t, amp, qf)
    \/ Steps
    \/ Drain

(* The next statement of a call made by a thread with no running event     *)
(* loop, when nothing fails: a thread that can run it does run it.         *)
Proceed(th) ==
    \/ PredictStep(th, FALSE)
    \/ \E o \in {Some(d) : d \in Detections} : DetectStep(th, o)
    \/ RecordStep(th, "ok")
    \/ PublishDetectionStep(th, FALSE, FALSE)
    \/ OnTickStep(th)
    \/ PublishStatusStep(th, FALSE, FALSE)
    \/ CacheStep(th)
    \/ ReturnStep(th)

SpecBus == InitBus /\ [][NextBus]_vars /\ \A th \in Threads : WF_vars(Proceed(th))

----------------------------------------------------------------------------
(* HILDStateMachine called directly.  script[s] is the list of calls made  *)
(* for s: "T" a triggered tick, "F" an untriggered one, "A" acknowledge.   *)

Record(scr, call) == IF Len(scr) < MaxScript THEN Append(scr, call) ELSE scr

InitMgrIdle ==
    /\ last_qms = <<>>
    /\ in_memory = <<>>
    /\ graph = 0
    /\ bus = NoBus
    /\ started = [tick |-> 0, ack |-> 0, graph |-> 0]
    /\ pc = [th \in Threads |-> "idle"]
    /\ frame = [th \in Threads |-> NoFrame]

InitHILD ==
    /\ sessions = <<>>
    /\ uuid_next = 1
    /\ ret = NoRet
    /\ script = [s \in HildSessionIds |-> <<>>]
    /\ InitMgrIdle

HildOnTick(s, t, d) ==
    /\ uuid_next <= MaxUuid
    /\ LET r == OnTick(sessions, s, t, d, uuid_next)
       IN /\ sessions' = r.sessions
          /\ uuid_next' = IF r.new_prompt THEN uuid_next + 1 ELSE uuid_next
          /\ ret' = r.status
    /\ script' = [script EXCEPT ![s] = Record(@, IF d.triggered THEN "T" ELSE "F")]
    /\ UNCHANGED mgrVars

HildAcknowledge(s, t) ==
    /\ LET r == Acknowledge(sessions, s, t)
       IN /\ sessions' = r.sessions
          /\ ret' = r.status
    /\ script' = [script EXCEPT ![s] = Record(@, "A")]
    /\ UNCHANGED <<uuid_next, mgrVars>>

HildGetStatusStoring(s) ==
    /\ ret' = GetStatus(sessions, s)
    /\ sessions' = IF s \in DOMAIN sessions THEN sessions
                   ELSE (s :> HILDSessionState(GetStatus(sessions, s), FALSE)) @@ sessions
    /\ UNCHANGED <<uuid_next, script, mgrVars>>

HildGetStatus(s) ==
    /\ ret' = GetStatus(sessions, s)
    /\ UNCHANGED <<sessions, uuid_next, script, mgrVars>>

NextHILD ==
    \/ \E s \in HildSessionIds, t \in Times, d \in Detections : HildOnTick(s, t, d)
    \/ \E s \in HildSessionIds, t \in Times : HildAcknowledge(s, t)
    \/ \E s \in HildSessionIds : HildGetStatus(s)

SpecHILD == InitHILD /\ [][NextHILD]_vars

----------------------------------------------------------------------------
(* HILDStateMachine called directly, with started.tick the number of       *)
(* untriggered ticks made since the last triggered tick or acknowledge (or *)
(* since the start), up to MaxQuiet.  An untriggered tick makes no prompt  *)
(* and draws no uuid, so it can always be made; whoever drives the session *)
(* keeps ticking.                                                          *)

QuietTicks(n, triggered) == IF triggered THEN 0 ELSE Min(n + 1, MaxQuiet)

CountedOnTick(s, t, d) ==
    /\ d.triggered => uuid_next <= MaxUuid
    /\ LET r == OnTick(sessions, s, t, d, uuid_next)
       IN /\ sessions' = r.sessions
          /\ uuid_next' = IF r.new_prompt THEN uuid_next + 1 ELSE uuid_next
          /\ ret' = r.status
    /\ started' = [started EXCEPT !.tick = QuietTicks(@, d.triggered)]
    /\ UNCHANGED <<script, last_qms, in_memory, graph, bus, pc, frame>>

CountedAcknowledge(s, t) ==
    /\ LET r == Acknowledge(sessions, s, t)
       IN /\ sessions' = r.sessions
          /\ ret' = r.status
    /\ started' = [started EXCEPT !.tick = 0]
    /\ UNCHANGED <<uuid_next, script, last_qms, in_memory, graph, bus, pc, frame>>

NextCounted ==
    \/ \E s \in HildSessionIds, t \in Times, d \in Detections : CountedOnTick(s, t, d)
    \/ \E s \in HildSessionIds, t \in Times : CountedAcknowledge(s, t)

UntriggeredTick(s) == \E t \in Times : CountedOnTick(s, t, NotTriggered)

SpecCounted ==
    InitHILD /\ [][NextCounted]_vars /\ \A s \in HildSessionIds : WF_vars(UntriggeredTick(s))

----------------------------------------------------------------------------
(* detect, build_from_segments, build and predict called directly, as the  *)
(* unit tests of the detector do.  ret is the call made and what it        *)
(* returned.  The calls change no state of their objects, so a run makes   *)
(* one call: what a call returns does not depend on the calls before it.   *)

Amplitudes(n) == [1..n -> 0..MaxWeight]

(* The state over the first segments of the ranking with these amplitudes. *)
StateOver(amplitudes) == QMSState(SegList(Len(amplitudes)), "s1", 0, amplitudes)

InitDirect ==
    /\ sessions = <<>>
    /\ uuid_next = 1
    /\ ret = [call |-> "none"]
    /\ script = [s \in HildSessionIds |-> <<>>]
    /\ InitMgrIdle

(* detector.detect(observed, predicted), for states of these amplitudes. *)
DirectDetect(psi_obs, psi_pred) ==
    /\ LET observed == StateOver(psi_obs)
           predicted == StateOver(psi_pred)
       IN \E result \in Detect(observed, predicted) :
             ret' = [call |-> "detect", observed |-> observed, predicted |-> predicted,
                     raised |-> FALSE, result |-> result]
    /\ UNCHANGED <<sessions, uuid_next, script, mgrVars>>

(* SpectralRogueDetector(max_directions, loading_top_k).detect(observed,   *)
(* predicted).                                                             *)
DirectDetectConfigured(psi_obs, psi_pred, max_dirs, top_k) ==
    /\ LET observed == StateOver(psi_obs)
           predicted == StateOver(psi_pred)
       IN \E result \in DetectWith(observed, predicted, max_dirs, top_k) :
             ret' = [call |-> "detect_configured", observed |-> observed,
                     predicted |-> predicted, max_directions |-> max_dirs,
                     loading_top_k |-> top_k, raised |-> FALSE, result |-> result]
    /\ UNCHANGED <<sessions, uuid_next, script, mgrVars>>

(* QMSBuilder(repo).build_from_segments(session_id, t_rel_ms, limit,       *)
(* feature_overrides) on a repository of n_segments segments, whose state  *)
(* lookups do what lookups says: no check of limit precedes the segment    *)
(* query.                                                                  *)
DirectBuild(n_segments, limit, lookups, feature_overrides) ==
    /\ LET basis == TopSegments(n_segments, limit)
       IN ret' = [call |-> "build_from_segments", n_segments |-> n_segments,
                  limit |-> limit, lookups |-> lookups,
                  feature_overrides |-> feature_overrides,
                  raised |-> FALSE, queried |-> TRUE,
                  result |-> QMSState(basis, "s1", 0,
                                      BuildAmplitudes(basis, lookups, feature_overrides))]
    /\ UNCHANGED <<sessions, uuid_next, script, mgrVars>>

(* HamiltonianBuilder(repo).build(basis, level) on a repository with these *)
(* edges, for the basis of the n top segments.                             *)
DirectHamiltonian(n, edges, level) ==
    /\ ret' = [call |-> "build", basis |-> SegList(n), edges |-> edges, level |-> level,
               raised |-> FALSE,
               accumulated |-> Accumulate(SegList(n), GetGraph(edges, level)),
               result |-> Build(SegList(n), edges, level)]
    /\ UNCHANGED <<sessions, uuid_next, script, mgrVars>>

(* HamiltonianBuilder(repo).predict(prev_state, dt), dt in milliseconds,   *)
(* on a repository with these edges: no check of dt precedes the linear    *)
(* algebra.                                                                *)
DirectPredict(psi_prev, dt, edges) ==
    /\ LET prev_state == StateOver(psi_prev)
       IN ret' = [call |-> "predict", prev_state |-> prev_state, dt |-> dt, edges |-> edges,
                  raised |-> FALSE, computed |-> TRUE,
                  result |-> PredictFrom(prev_state, edges, dt)]
    /\ UNCHANGED <<sessions, uuid_next, script, mgrVars>>

(* A call is made of a detector, builder or repository that no call has    *)
(* been made of.                                                           *)
NextDirect ==
    \/ /\ ret.call = "none"
       /\ \E n \in 0..MaxDim, m \in 0..MaxDim :
             \E psi_obs \in Amplitudes(n), psi_pred \in Amplitudes(m) :
                 /\ n = m \/ n = 0
                 /\ DirectDetect(psi_obs, psi_pred)
    \/ /\ ret.call = "none"
       /\ \E n \in 1..MaxDim, max_dirs \in 1..(max_directions - 1), top_k \in 1..MaxTopK :
             \E psi_obs \in Amplitudes(n), psi_pred \in Amplitudes(n) :
                 DirectDetectConfigured(psi_obs, psi_pred, max_dirs, top_k)
    \/ /\ ret.call = "none"
       /\ \E n \in 0..MaxDim, limit \in (-MaxLimit)..MaxLimit :
             \E lookups \in [1..MaxDim -> LookupOutcomes], feature_overrides \in Overrides :
                 DirectBuild(n, limit, lookups, feature_overrides)
    \/ /\ ret.call = "none"
       /\ \E n \in 0..MaxDim, level \in Levels :
             \E edges \in EdgeLists(MaxDim, MaxEdges) : DirectHamiltonian(n, edges, level)
    \/ /\ ret.call = "none"
       /\ \E n \in 0..MaxDim, dt \in (-MaxDt)..MaxDt :
             \E psi_prev \in Amplitudes(n), edges \in EdgeLists(MaxDim, MaxEdges - 1) :
                 DirectPredict(psi_prev, dt, edges)

SpecDirect == InitDirect /\ [][NextDirect]_vars

----------------------------------------------------------------------------
(* Claims about HILDStateMachine, checked under SpecHILD. *)

StateOf(s) == GetStatus(sessions, s).state

(* C1: a fresh session driven only by on_tick: after a triggered tick it   *)
(* is Clarifying with a prompt; after the first untriggered tick it is     *)
(* still Clarifying, with the retry flag set; after the second it is       *)
(* PassiveSafe; after the third it is Resolved.                            *)
C1_GraceScenario ==
    \A s \in HildSessionIds :
        /\ script[s] = <<"T">> =>
              /\ s \in DOMAIN sessions
              /\ sessions[s].status.state = "Clarifying"
              /\ sessions[s].status.prompt # None
        /\ script[s] = <<"T", "F">> =>
              /\ sessions[s].status.state = "Clarifying"
              /\ sessions[s].status.prompt # None
              /\ sessions[s].unanswered_retry
        /\ script[s] = <<"T", "F", "F">> => sessions[s].status.state = "PassiveSafe"
        /\ script[s] = <<"T", "F", "F", "F">> => sessions[s].status.state = "Resolved"

C1_Witness ==
    /\ script["s1"] = <<"T", "F", "F", "F">>
    /\ StateOf("s1") = "Resolved"

(* C2: acknowledge on a session that has an entry returns and stores a     *)
(* status in Resolved, with the active_event_id held before the call and   *)
(* no prompt, and the retry flag is reset, whatever the state before.      *)
C2_AckResolvesKnown ==
    [][\A s \in HildSessionIds, t \in Times :
          (HildAcknowledge(s, t) /\ s \in DOMAIN sessions) =>
              /\ ret'.state = "Resolved"
              /\ sessions'[s].status = ret'
              /\ ret'.active_event_id = sessions[s].status.active_event_id
              /\ ret'.prompt = None
              /\ ~sessions'[s].unanswered_retry]_vars

C2_Witness ==
    /\ script["s1"] = <<"T", "F", "A">>
    /\ ret = sessions["s1"].status
    /\ ret.state = "Resolved"
    /\ ret.active_event_id = Some(MaxEvent)
    /\ ret.prompt = None
    /\ ~sessions["s1"].unanswered_retry

(* C3: acknowledge on a session id never ticked or acknowledged creates    *)
(* the session and leaves it Resolved: the status returned, the status     *)
(* stored and the status read afterwards all have state Resolved.          *)
C3_AckUnknownResolved ==
    \A s \in HildSessionIds :
        script[s] = <<"A">> =>
            /\ s \in DOMAIN sessions
            /\ sessions[s].status.state = "Resolved"
            /\ ret.state = "Resolved"

(* C4: a triggered tick on a session in Idle or Resolved (or with no entry *)
(* yet) moves it to Clarifying with a new prompt that names at most the    *)
(* first 3 rogue segments of the detection, sets active_event_id to the    *)
(* detection's event id and clears the retry flag.                         *)
C4_TriggeredOpensEpisode ==
    [][\A s \in HildSessionIds, t \in Times, d \in Detections :
          (HildOnTick(s, t, d) /\ d.triggered /\ StateOf(s) \in {"Idle", "Resolved"}) =>
              /\ sessions'[s].status.state = "Clarifying"
              /\ sessions'[s].status.prompt # None
              /\ LET p == sessions'[s].status.prompt[1]
                 IN /\ p.prompt_id = uuid_next
                    /\ Len(p.ambiguity) <= 3
                    /\ Len(p.ambiguity) = Min(3, Len(d.rogue_segments))
                    /\ \A i \in 1..Len(p.ambiguity) : p.ambiguity[i] = d.rogue_segments[i]
              /\ sessions'[s].status.active_event_id = d.event_id
              /\ ~sessions'[s].unanswered_retry
              /\ ret' = sessions'[s].status]_vars

(* The second episode of a session, opened from Resolved while the retry   *)
(* flag of the first was still set.                                        *)
C4_Witness ==
    /\ script["s1"] = <<"T", "F", "F", "F", "T">>
    /\ StateOf("s1") = "Clarifying"
    /\ sessions["s1"].status.prompt # None
    /\ sessions["s1"].status.prompt[1].prompt_id = 2
    /\ Len(sessions["s1"].status.prompt[1].ambiguity) = 3
    /\ ~sessions["s1"].unanswered_retry

----------------------------------------------------------------------------
(* Claims about QRVManager and RogueVariableLibrary. *)

EntryOf(sess, s) == IF s \in DOMAIN sess THEN Some(sess[s]) ELSE None
PriorOf(cache, s) == IF s \in DOMAIN cache THEN Some(cache[s]) ELSE None

(* A step of a process_tick call for session a, or acknowledge_prompt for a. *)
ActsFor(a) ==
    \/ \E th \in Threads :
          /\ frame'[th].session_id = a
          /\ pc'[th] # "idle"
          /\ (pc'[th] # pc[th] \/ frame'[th] # frame[th])
    \/ \E t \in Times : AcknowledgePrompt(a, t)

(* C5: under any interleaving of overlapping process_tick calls and        *)
(* acknowledge_prompt calls, a step taken for session a changes neither    *)
(* the HILD entry (status and retry flag) nor the cached prior of any      *)
(* other session b; both maps are keyed by session id alone.               *)
C5_SessionsIndependent ==
    [][\A a \in SessionIds :
          ActsFor(a) =>
              /\ \A b \in SessionIds \ {a} :
                    /\ EntryOf(sessions', b) = EntryOf(sessions, b)
                    /\ PriorOf(last_qms', b) = PriorOf(last_qms, b)
              /\ DOMAIN sessions' \subseteq SessionIds
              /\ DOMAIN last_qms' \subseteq SessionIds]_vars

(* Both sessions have a cached prior and an entry, in different states. *)
C5_Witness ==
    /\ DOMAIN last_qms = SessionIds
    /\ DOMAIN sessions = SessionIds
    /\ sessions[""].status.state = "Resolved"
    /\ sessions["s1"].status.state = "Clarifying"
    /\ last_qms[""] # last_qms["s1"]

(* C6: process_tick calls of one session are serialized: from its read of  *)
(* the cached prior to its write of the new one, no other tick of the      *)
(* session writes the cache, so the prior a tick predicted from is still   *)
(* the session's cached one (or none is cached and it used its observed    *)
(* state).                                                                 *)
C6_TicksSerializedPerSession ==
    \A th \in Threads :
        pc[th] \in {"detect", "record", "publish_detection", "on_tick",
                    "publish_status", "cache"} =>
            frame[th].prev =
                Some(ReadPrior(last_qms, frame[th].session_id, frame[th].observed[1]))

(* C7: a failing audit file or external mirror does not make record raise, *)
(* so no process_tick ends with an exception of a durability sink.         *)
C7_SinkFailureSwallowed ==
    \A th \in Threads :
        pc[th] = "raised" => frame[th].exc \notin {Some("audit_fails"), Some("mirror_fails")}

(* C8: a failing bus.publish, of qrv_detection or of hild_status, is       *)
(* swallowed: no process_tick ends with an exception of a publication.     *)
C8_PublishFailureSwallowed ==
    \A th \in Threads :
        pc[th] = "raised" =>
            frame[th].exc \notin {Some("publish_detection"), Some("publish_status")}

(* C9: no exception escapes process_tick, whichever internal step fails. *)
C9_NoExceptionEscapes ==
    \A th \in Threads : pc[th] # "raised"

IsPrefix(a, b) == Len(a) <= Len(b) /\ \A i \in 1..Len(a) : a[i] = b[i]

(* C10: the in-memory log is append-only and keeps insertion order, and    *)
(* list_events with a session id returns from it exactly the events of     *)
(* that session, in log order; so a recorded event stays listed for its    *)
(* session.                                                                *)
C10_ListEventsExactlySession ==
    [][/\ IsPrefix(in_memory, in_memory')
       /\ \A sid \in SessionIds :
             ListEventsInMemory(in_memory', Some(sid)) =
                 SelectSeq(in_memory', LAMBDA rec : rec.session_id = sid)]_vars

----------------------------------------------------------------------------
(* Claims about the steps of process_tick, checked under Spec. *)

Ids(mem) == {mem[i].id : i \in 1..Len(mem)}

(* The records of the log that a call's locals describe. *)
RecordsOf(mem, f) ==
    SelectSeq(mem, LAMBDA rec :
        f.event_id # None /\ rec = RogueEventRecord(f.event_id[1], f.session_id, f.t_rel_ms))

AfterRecord == {"publish_detection", "on_tick", "publish_status", "cache", "return"}

(* C11: a process_tick result has an event id if and only if its detection *)
(* is triggered; the in-memory log grows by exactly one record, with the   *)
(* tick's session id, t_rel_ms and event id, in the record step of a       *)
(* triggered tick, which every triggered tick and no other takes, and in   *)
(* no other step; the ids of the log are pairwise distinct.                *)
C11_OneRecordPerTriggeredTick ==
    [][/\ \A th \in Threads :
             /\ pc'[th] = "return" =>
                   /\ (frame'[th].event_id # None) = frame'[th].detection[1].triggered
                   /\ frame'[th].detection[1].event_id = frame'[th].event_id
             /\ (pc[th] = "detect" /\ pc'[th] \notin {"detect", "raised"}) =>
                   (pc'[th] = "record") = frame'[th].detection[1].triggered
             /\ (pc'[th] = "record" /\ pc[th] # "record") => pc[th] = "detect"
             /\ (pc[th] = "record" /\ pc'[th] # "record") =>
                   in_memory' = Append(in_memory,
                       RogueEventRecord(frame[th].event_id[1], frame[th].session_id,
                                        frame[th].t_rel_ms))
             /\ pc'[th] \in AfterRecord =>
                   Len(RecordsOf(in_memory', frame'[th])) =
                       (IF frame'[th].detection[1].triggered THEN 1 ELSE 0)
       /\ (\A th \in Threads : ~(pc[th] = "record" /\ pc'[th] # "record")) =>
             in_memory' = in_memory
       /\ Cardinality(Ids(in_memory')) = Len(in_memory')]_vars

(* Two triggered ticks have returned or are returning: two records, of two *)
(* sessions, with two ids.                                                 *)
C11_Witness ==
    /\ Len(in_memory) = 2
    /\ in_memory[1].session_id # in_memory[2].session_id
    /\ in_memory[1].id # in_memory[2].id
    /\ \E th \in Threads :
          /\ pc[th] = "return"
          /\ frame[th].event_id = Some(in_memory[2].id)
          /\ frame[th].detection[1].triggered

(* The order of the steps of one call: what may follow what. *)
StepOrder(triggered) ==
    {<<"predict", "detect">>,
     <<"detect", IF triggered THEN "record" ELSE "on_tick">>,
     <<"record", "publish_detection">>, <<"publish_detection", "on_tick">>,
     <<"on_tick", "publish_status">>, <<"publish_status", "cache">>,
     <<"cache", "return">>, <<"return", "returned">>}

(* What a call that got to its return statement has handed to the bus. *)
Published(b, triggered) ==
    IF ~b.attached THEN <<>>
    ELSE IF triggered THEN <<"qrv_detection", "hild_status">>
    ELSE <<"hild_status">>

(* C12: within a process_tick the steps follow one another in this order:  *)
(* (triggered only) rvl.record, publication of qrv_detection; then         *)
(* hild.on_tick; then publication of hild_status; then the caching of the  *)
(* observed state.  The log, the HILD entry, the bus and the cache change  *)
(* only in their own step.  A call that reaches its return has published,  *)
(* to an attached bus, hild_status, preceded by qrv_detection exactly when *)
(* the detection is triggered.                                             *)
C12_StepOrderInTick ==
    [][/\ \A th \in Threads :
             /\ (Running(th) /\ pc'[th] # pc[th] /\ pc'[th] # "raised") =>
                   <<pc[th], pc'[th]>> \in
                       StepOrder(pc[th] # "predict" /\ frame'[th].detection # None
                                 /\ frame'[th].detection[1].triggered)
             /\ (frame'[th].sent # frame[th].sent /\ frame'[th].sent # <<>>) =>
                   \/ /\ pc[th] = "publish_detection"
                      /\ frame'[th].sent = Append(frame[th].sent, "qrv_detection")
                   \/ /\ pc[th] = "publish_status"
                      /\ frame'[th].sent = Append(frame[th].sent, "hild_status")
             /\ pc'[th] = "return" =>
                   /\ frame'[th].sent = Published(bus', frame'[th].detection[1].triggered)
                   /\ frame'[th].status # None
                   /\ last_qms'[frame'[th].session_id] = frame'[th].observed[1]
       /\ in_memory' # in_memory =>
             \E th \in Threads : pc[th] = "record" /\ pc'[th] \in {"publish_detection", "raised"}
       /\ (sessions' # sessions /\ started'.ack = started.ack) =>
             \E th \in Threads : pc[th] = "on_tick" /\ pc'[th] = "publish_status"
       /\ bus' # bus =>
             \E th \in Threads : /\ pc[th] \in {"publish_detection", "publish_status"}
                                 /\ pc'[th] \in {"on_tick", "cache"}
       /\ last_qms' # last_qms =>
             \E th \in Threads : pc[th] = "cache" /\ pc'[th] = "return"]_vars

(* A triggered tick on an attached bus, at its return. *)
C12_Witness ==
    \E th \in Threads :
        /\ pc[th] = "return"
        /\ bus.attached
        /\ frame[th].sent = <<"qrv_detection", "hild_status">>
        /\ frame[th].status[1].state = "Clarifying"
        /\ Len(RecordsOf(in_memory, frame[th])) = 1
        /\ last_qms[frame[th].session_id] = frame[th].observed[1]

Max(a, b) == IF a >= b THEN a ELSE b

AfterPredict == {"detect", "record", "publish_detection", "on_tick", "publish_status",
                 "cache", "return"}

(* C13: a tick predicts from the state cached by the previous tick of its  *)
(* session, or from its own observed state when none is cached, over       *)
(* max(t_rel_ms - prior.t_rel_ms, 1) milliseconds, whatever the prior's    *)
(* t_rel_ms is (0 included); once it has cached, the session's prior is    *)
(* its observed state.                                                     *)
C13_PredictsFromPriorOverElapsed ==
    \A th \in Threads :
        /\ pc[th] \in AfterPredict \ {"return"} =>
              /\ frame[th].prev =
                    Some(ReadPrior(last_qms, frame[th].session_id, frame[th].observed[1]))
              /\ frame[th].predicted[1].basis = frame[th].prev[1].basis
              /\ frame[th].predicted[1].amp.from = frame[th].prev[1].amp
              /\ frame[th].predicted[1].amp.dt =
                    Max(frame[th].t_rel_ms - frame[th].prev[1].t_rel_ms, 1)
        /\ pc[th] = "return" =>
              last_qms[frame[th].session_id] = frame[th].observed[1]

(* C14: with a bus attached, every process_tick call completes, whether    *)
(* or not the subscriber's queue is full or is ever drained: a publication *)
(* never waits for a subscriber.                                           *)
C14_PublishNeverWaits ==
    \A th \in Threads : Running(th) ~> ~Running(th)

(* C28: whenever the HILD state of a session is Clarifying or PassiveSafe, *)
(* its active_event_id is set and is the id of an event of the in-memory   *)
(* log recorded for that session.                                          *)
C28_ActiveEventIsLogged ==
    \A s \in DOMAIN sessions :
        sessions[s].status.state \in {"Clarifying", "PassiveSafe"} =>
            /\ sessions[s].status.active_event_id # None
            /\ \E i \in 1..Len(in_memory) :
                  /\ in_memory[i].id = sessions[s].status.active_event_id[1]
                  /\ in_memory[i].session_id = s

(* A session in PassiveSafe, two untriggered ticks after the tick that     *)
(* logged its event.                                                       *)
C28_Witness ==
    /\ Len(in_memory) = 1
    /\ in_memory[1].session_id = "s1"
    /\ "s1" \in DOMAIN sessions
    /\ sessions["s1"].status.state = "PassiveSafe"
    /\ sessions["s1"].status.active_event_id = Some(in_memory[1].id)

(* C29: in every process_tick the predicted state handed to detect has    *)
(* the basis of the observed state, the same ids in the same order, also   *)
(* when the segments the graph accessor ranks change between two ticks of  *)
(* the session.                                                            *)
C29_PredictedOverObservedBasis ==
    \A th \in Threads :
        pc[th] = "detect" => frame[th].predicted[1].basis = frame[th].observed[1].basis

----------------------------------------------------------------------------
(* More claims about HILDStateMachine, checked under SpecHILD. *)

(* C15: get_status (QRVManager.status) is read-only: it creates and        *)
(* changes no entry, and returns what a second call right after it         *)
(* returns; for a session with no entry that is an Idle status, and the    *)
(* session still has no entry.                                             *)
C15_StatusReadOnly ==
    [][\A s \in HildSessionIds :
          HildGetStatus(s) =>
              /\ sessions' = sessions
              /\ ret' = GetStatus(sessions', s)
              /\ s \notin DOMAIN sessions =>
                    /\ ret' = HILDStatus(s, "Idle", None, None, None)
                    /\ s \notin DOMAIN sessions']_vars

(* The status of a session that has no entry has been read. *)
C15_Witness ==
    /\ "s1" \notin DOMAIN sessions
    /\ ret = HILDStatus("s1", "Idle", None, None, None)
    /\ ret = GetStatus(sessions, "s1")

(* C16: a status has a prompt if and only if its state is Clarifying, for  *)
(* every status stored and every status returned.                          *)
C16_PromptOnlyInClarifying ==
    /\ \A s \in DOMAIN sessions :
          (sessions[s].status.prompt # None) = (sessions[s].status.state = "Clarifying")
    /\ (ret.prompt # None) = (ret.state = "Clarifying")

(* The ticks that fall under no transition rule, or under the rule that    *)
(* keeps a clarification open.                                             *)
NoChangeCase(state, triggered) ==
    \/ triggered /\ state \in {"Clarifying", "PassiveSafe"}
    \/ ~triggered /\ state \in {"Idle", "Resolved"}

C23_PendingRogueUnreachable ==
    /\ \A s \in DOMAIN sessions : sessions[s].status.state # "PendingRogue"
    /\ ret.state # "PendingRogue"
    /\ \A s \in HildSessionIds : StateOf(s) \in HILDStates \ {"PendingRogue"}

(* A session that has been through an acknowledged episode and is in the   *)
(* PassiveSafe state of its second one.                                    *)
C23_Witness ==
    /\ script["s1"] = <<"T", "A", "T", "F", "F">>
    /\ StateOf("s1") = "PassiveSafe"
    /\ sessions["s1"].status.prompt[1].prompt_id = 2

(* C27: while a session is Clarifying a triggered tick leaves the retry    *)
(* flag as it is, and an untriggered tick with the flag set moves the      *)
(* session to PassiveSafe; so after an untriggered tick, any number of     *)
(* triggered ticks and one more untriggered tick the session is in         *)
(* PassiveSafe: the two untriggered ticks need not follow one another.     *)
C27_RetryFlagSurvivesTriggered ==
    [][\A s \in HildSessionIds, t \in Times, d \in Detections :
          (HildOnTick(s, t, d) /\ StateOf(s) = "Clarifying") =>
              /\ d.triggered =>
                    /\ sessions'[s].unanswered_retry = sessions[s].unanswered_retry
                    /\ sessions'[s].status.state = "Clarifying"
              /\ (~d.triggered /\ sessions[s].unanswered_retry) =>
                    sessions'[s].status.state = "PassiveSafe"
              /\ (~d.triggered /\ ~sessions[s].unanswered_retry) =>
                    /\ sessions'[s].unanswered_retry
                    /\ sessions'[s].status.state = "Clarifying"
              /\ (/\ script'[s] # script[s]
                  /\ script'[s] \in {<<"T", "F", "T", "F">>, <<"T", "F", "T", "T", "F">>}) =>
                    sessions'[s].status.state = "PassiveSafe"]_vars

(* Two triggered ticks between the two untriggered ones. *)
C27_Witness ==
    /\ script["s1"] = <<"T", "F", "T", "T", "F">>
    /\ StateOf("s1") = "PassiveSafe"
    /\ sessions["s1"].unanswered_retry

Quiet(s) == StateOf(s) \in {"Idle", "Resolved"}

(* C30: after three untriggered ticks in a row, with no acknowledge, the   *)
(* session is Idle or Resolved, and it stays so for every further          *)
(* untriggered tick; if from some tick on every tick is untriggered and    *)
(* there is no acknowledge, the session is from some time on Idle or       *)
(* Resolved for good: it does not stay in Clarifying or PassiveSafe.       *)
C30_QuietTicksResolve ==
    \A s \in HildSessionIds :
        /\ [](started.tick >= 3 => Quiet(s))
        /\ <>[](started.tick > 0) => <>[]Quiet(s)

(* The third untriggered tick after a triggered one has resolved the       *)
(* session.                                                                *)
C30_Witness ==
    /\ started.tick = 3
    /\ StateOf("s1") = "Resolved"
    /\ sessions["s1"].unanswered_retry
    /\ sessions["s1"].status.active_event_id # None

----------------------------------------------------------------------------
(* Claims about detect, build_from_segments and predict, checked under     *)
(* SpecDirect.                                                             *)

(* C17: a negative limit is rejected by build_from_segments with an error  *)
(* before the segment query, and a non-positive dt by predict before the   *)
(* linear algebra.                                                         *)
C17_BadConfigRejected ==
    /\ (ret.call = "build_from_segments" /\ ret.limit < 0) =>
          ret.raised /\ ~ret.queried
    /\ (ret.call = "predict" /\ ret.dt <= 0) =>
          ret.raised /\ ~ret.computed

(* C18: detect(x, x) of a non-empty state x returns error_norm 0 and is    *)
(* not triggered.                                                          *)
C18_DetectSameState ==
    (/\ ret.call = "detect"
     /\ Len(ret.observed.amp) > 0
     /\ ret.predicted = ret.observed) =>
        /\ ret.result.error_norm_sq = 0
        /\ ~ret.result.triggered

(* detect(x, x) has returned, for an x with weight on two of three segments. *)
C18_Witness ==
    /\ ret.call = "detect"
    /\ ret.predicted = ret.observed
    /\ Len(ret.observed.amp) = MaxDim
    /\ SqNorm(ret.observed.amp) = 2
    /\ ret.result.error_norm_sq = 0
    /\ ~ret.result.triggered
    /\ Len(ret.result.rogue_segments) = 1

WeightOnlyOn(v, i) == v[i] # 0 /\ \A j \in 1..Len(v) : j # i => v[j] = 0

(* C19: when observed has all its weight on one segment and predicted all  *)
(* its weight on another segment of the same basis, detect is triggered    *)
(* and the segment of observed is among rogue_segments.                    *)
C19_DetectDisplacedWeight ==
    ret.call = "detect" =>
        \A i, j \in 1..Len(ret.observed.amp) :
            (/\ i # j
             /\ Len(ret.predicted.amp) = Len(ret.observed.amp)
             /\ WeightOnlyOn(ret.observed.amp, i)
             /\ WeightOnlyOn(ret.predicted.amp, j)) =>
                /\ ret.result.triggered
                /\ SegName(i) \in {ret.result.rogue_segments[q] :
                                       q \in 1..Len(ret.result.rogue_segments)}

(* The tested case: observed = [1, 0], predicted = [0, 1]. *)
C19_Witness ==
    /\ ret.call = "detect"
    /\ ret.observed.amp = <<1, 0>>
    /\ ret.predicted.amp = <<0, 1>>
    /\ ret.result.triggered
    /\ ret.result.error_norm_sq = 2
    /\ ret.result.rogue_segments = <<SegName(2), SegName(1)>>

(* C21: every state build_from_segments returns has as many amplitudes as *)
(* basis ids, the number of segments the graph accessor returned, also     *)
(* when state lookups raise: no exception escapes, and a segment whose     *)
(* lookup raised has the amplitude it has with no state at all.  predict   *)
(* over the minimum dt of 1 ms does not raise and returns a state with the *)
(* prior's basis and as many amplitudes as basis ids.                      *)
C21_LengthsAgree ==
    /\ ret.call = "build_from_segments" =>
          /\ ~ret.raised
          /\ Len(ret.result.amp) = Len(ret.result.basis)
          /\ Len(ret.result.basis) = Len(TopSegments(ret.n_segments, ret.limit))
          /\ \A i \in 1..Len(ret.result.basis) :
                ret.lookups[i] = "raises" =>
                    ret.result.amp[i] =
                        BuildAmplitudes(ret.result.basis, [ret.lookups EXCEPT ![i] = "none"],
                                        ret.feature_overrides)[i]
    /\ (ret.call = "predict" /\ ret.dt = 1) =>
          /\ ~ret.raised
          /\ ret.result.basis = ret.prev_state.basis
          /\ Len(ret.result.amp) = Len(ret.result.basis)

(* Two segments returned, the lookup of the first raised, the second has a *)
(* state: two amplitudes, the second the larger.                           *)
C21_Witness ==
    /\ ret.call = "build_from_segments"
    /\ ret.feature_overrides = None
    /\ ret.lookups[1] = "raises"
    /\ ret.lookups[2] = "state"
    /\ Len(ret.result.basis) = 2
    /\ ret.result.amp = <<75, 60>>

(* The sum of strength * confidence over the edges created from u to v,   *)
(* both at this level.                                                     *)
EdgeSum(edges, level, u, v) ==
    SumTo([k \in 1..Len(edges) |->
              IF /\ edges[k][1] = u /\ edges[k][2] = v
                 /\ Level(u) = level /\ Level(v) = level
              THEN edges[k][3] * edges[k][4] ELSE 0], Len(edges))

(* C24: before damping, H[i, j] of build(basis, level) is the sum of       *)
(* strength * confidence over all edges created from basis[i] to basis[j]  *)
(* in the level graph, duplicates between one pair added up, edges with an *)
(* end outside the basis ignored; damping subtracts diag_damping times the *)
(* sum of the absolute values of row i from H[i, i].                       *)
C24_HamiltonianAccumulates ==
    ret.call = "build" =>
        \A i, j \in 1..Len(ret.basis) :
            /\ ret.accumulated[i][j] = EdgeSum(ret.edges, ret.level, ret.basis[i], ret.basis[j])
            /\ ret.result[i][j] =
                  10 * ret.accumulated[i][j]
                  - (IF i = j
                     THEN diag_damping * SumTo([k \in 1..Len(ret.basis) |->
                                                  Abs(ret.accumulated[i][k])], Len(ret.basis))
                     ELSE 0)

DetectCalls == {"detect", "detect_configured"}

Elems(q) == {q[i] : i \in 1..Len(q)}

FirstPos(q, x) == CHOOSE i \in 1..Len(q) : q[i] = x /\ \A j \in 1..(i - 1) : q[j] # x

(* C26: for a non-empty observed state detect returns at least one and at  *)
(* most max_directions directions, in descending order of eigenvalue, each *)
(* with at most loading_top_k high segments; rogue_segments holds the ids  *)
(* of the directions' high_segments, each once, in the order in which they *)
(* are first seen, and only ids of the observed basis.                     *)
C26_DirectionsAndSegments ==
    (ret.call \in DetectCalls /\ Len(ret.observed.amp) > 0) =>
        LET dirs == ret.result.rogue_directions
            segs == ret.result.rogue_segments
            all_high == HighSegments(dirs)
            cap_dirs == IF ret.call = "detect" THEN max_directions ELSE ret.max_directions
            cap_high == IF ret.call = "detect" THEN loading_top_k ELSE ret.loading_top_k
        IN /\ Len(dirs) >= 1
           /\ Len(dirs) <= cap_dirs
           /\ \A a, b \in 1..Len(dirs) : a < b => dirs[a].eigenvalue >= dirs[b].eigenvalue
           /\ \A d \in 1..Len(dirs) : Len(dirs[d].high_segments) <= cap_high
           /\ Elems(segs) = Elems(all_high)
           /\ \A i, j \in 1..Len(segs) :
                 i < j => /\ segs[i] # segs[j]
                          /\ FirstPos(all_high, segs[i]) < FirstPos(all_high, segs[j])
           /\ Elems(segs) \subseteq Elems(ret.observed.basis)

(* A detector of 2 directions and 2 loadings on a state of 3 segments that *)
(* all differ: both caps cut, and a segment that two directions load is    *)
(* listed once.                                                            *)
C26_Witness ==
    /\ ret.call = "detect_configured"
    /\ ret.max_directions = 2
    /\ ret.loading_top_k = 2
    /\ ret.observed.amp = <<1, 1, 1>>
    /\ ret.predicted.amp = <<0, 0, 0>>
    /\ Len(ret.result.rogue_directions) = 2
    /\ ret.result.rogue_directions[1].eigenvalue = 3
    /\ ret.result.rogue_directions[1].high_segments = <<SegName(1), SegName(2)>>
    /\ ret.result.rogue_directions[2].high_segments = <<SegName(2), SegName(3)>>
    /\ ret.result.rogue_segments = <<SegName(1), SegName(2), SegName(3)>>

----------------------------------------------------------------------------
(* C20: detect with empty observed amplitudes returns at once a result     *)
(* that is not triggered, with error_norm 0, ablation_improvement 0, no    *)
(* directions and no segments, whatever predicted is; so a process_tick    *)
(* over a graph with no segments gets an untriggered detection, never      *)
(* records or publishes a detection, opens no clarification, and ends      *)
(* with an exception only when the graph store or the bus fails.           *)
C20_EmptyObservedShortCircuits ==
    [][/\ \A m \in 0..MaxDim : \A psi_obs \in Amplitudes(0), psi_pred \in Amplitudes(m) :
             Detect(StateOver(psi_obs), StateOver(psi_pred)) =
                 {RogueDetectionResult(FALSE, 0, 0, <<>>, <<>>)}
       /\ \A th \in Threads :
             (/\ Running(th)
              /\ frame[th].observed # None
              /\ Len(frame[th].observed[1].basis) = 0) =>
                /\ (pc[th] = "detect" /\ pc'[th] # "detect") =>
                      /\ pc'[th] = "on_tick"
                      /\ frame'[th].detection = Some(NotTriggered)
                      /\ frame'[th].event_id = None
                /\ pc'[th] \notin {"record", "publish_detection"}
                /\ in_memory' = in_memory
                /\ \A i \in 1..Len(frame'[th].sent) : frame'[th].sent[i] # "qrv_detection"
                /\ uuid_next' = uuid_next
                /\ (pc[th] = "on_tick" /\ pc'[th] # "on_tick") =>
                      /\ frame'[th].status[1].state = "Clarifying" =>
                            /\ frame[th].session_id \in DOMAIN sessions
                            /\ sessions[frame[th].session_id].status = frame'[th].status[1]
                /\ pc'[th] = "raised" =>
                      frame'[th].exc \in {Some("graph_query"), Some("publish_status")}]_vars

(* A tick over an emptied graph, with the prior of a graph that had a      *)
(* segment, at its return.                                                 *)
C20_Witness ==
    \E th \in Threads :
        /\ pc[th] = "return"
        /\ Len(frame[th].observed[1].basis) = 0
        /\ Len(frame[th].prev[1].basis) = 1
        /\ frame[th].detection = Some(NotTriggered)
        /\ frame[th].event_id = None
        /\ frame[th].status[1].state = "Clarifying"
        /\ Len(in_memory) = 1

====
